---- MODULE Spec2Model ----
(***************************************************************************)
(* Model of minisweagent.environments.docker: one DockerEnvironment        *)
(* instance, its constructor (start a new container or adopt an existing   *)
(* one), execute(), cleanup() and __del__().  The container engine is the  *)
(* environment: every subprocess call gets a reply (duration, exit status, *)
(* stdout) chosen from a small set.                                        *)
(*                                                                         *)
(* Python values: an Optional[T] is a sequence of length <= 1 (None is     *)
(* << >>, a value v is << v >>).  Strings that the code strips or          *)
(* lower-cases (identifiers, engine output) are sequences of characters.   *)
(***************************************************************************)
EXTENDS Naturals, Sequences, FiniteSets

VARIABLES
    kwargs,             \* keyword arguments given to DockerEnvironment(...)
    phase,              \* "new" | "ready" | "failed" | "dead"
    attrs,              \* names of the attributes set on self so far
    config,             \* self.config (Optional: unset until line 56 succeeds)
    container_id,       \* self.container_id (Optional[str])
    _manage_container,  \* self._manage_container (Optional[bool])
    environ,            \* os.environ of the host process, at the forwarded names
    acq_log,            \* engine calls issued by the constructor, with their replies
    last_exec,          \* the last exec invocation of execute() and its reply
    n_exec,             \* number of exec invocations issued
    n_teardown,         \* number of stop-or-remove pipelines issued (Popen)
    n_cleanup,          \* number of explicit cleanup() calls made
    teardown_target,    \* container id named by the last teardown pipeline
    raised,             \* exception raised by the last operation, or "none"
    result              \* value returned by the last execute() (Optional)

vars == << kwargs, phase, attrs, config, container_id, _manage_container, environ,
           acq_log, last_exec, n_exec, n_teardown, n_cleanup, teardown_target,
           raised, result >>

----------------------------------------------------------------------------
(* Bounds *)

MaxExecute == 2
MaxCleanup == 2

----------------------------------------------------------------------------
(* Python values *)

None == << >>
Some(v) == << v >>

\* bool(x) of an Optional[str]: None and "" are falsy
Truthy(o) == o # None /\ o[1] # << >>

\* Python's `a or b` on Optional[str]
PyOr(a, b) == IF Truthy(a) THEN a ELSE b

Whitespace == {" ", "\n"}

RECURSIVE lstrip(_)
lstrip(s) ==
    IF s # << >> /\ Head(s) \in Whitespace THEN lstrip(Tail(s)) ELSE s

RECURSIVE rstrip(_)
rstrip(s) ==
    IF s # << >> /\ s[Len(s)] \in Whitespace
    THEN rstrip(SubSeq(s, 1, Len(s) - 1))
    ELSE s

\* str.strip()
strip(s) == rstrip(lstrip(s))

lower_char(c) ==
    CASE c = "T" -> "t"
      [] c = "R" -> "r"
      [] c = "U" -> "u"
      [] c = "E" -> "e"
      [] OTHER -> c

\* str.lower()
lower(s) == [i \in 1..Len(s) |-> lower_char(s[i])]

----------------------------------------------------------------------------
(* Inputs *)

Images == {None, Some(<< >>), Some(<<"a", "l", "p">>)}
ContainerIds == {None, Some(<< >>), Some(<<"c", "1">>)}
ContainerNames == {None, Some(<<"t">>), Some(<< >>)}
ManageFlags == {None, Some(TRUE), Some(FALSE)}

EnvNames == {"A", "B"}
\* config.env: items in dict order
EnvMappings == {<< >>, << <<"A", "ve">> >>}
ForwardLists == {<< >>, <<"A">>, <<"B", "A">>}
\* what os.environ can hold for a name: unset, or one of its values
HostValues(key) == IF key = "A" THEN {None, Some("va"), Some("ve")} ELSE {None, Some("vb")}
HostEnvironments(names) ==
    { env \in [names -> {None, Some("va"), Some("ve"), Some("vb")}] :
        \A key \in names : env[key] \in HostValues(key) }

DefaultTimeout == 30
DefaultPullTimeout == 120
Timeouts == {None, Some(1)}

\* Every way of naming the container to use, with the executor settings left
\* at their defaults
AcquisitionKwargs ==
    [ image : Images, container_id : ContainerIds, container_name : ContainerNames,
      manage_container : ManageFlags, env : {<< >>}, forward_env : {<< >>},
      timeout : {None}, well_typed : BOOLEAN ]

\* Every executor setting, on a container adopted by id
ExecutorKwargs ==
    [ image : {None}, container_id : {Some(<<"c", "1">>)},
      container_name : {None}, manage_container : {None},
      env : EnvMappings, forward_env : ForwardLists,
      timeout : Timeouts, well_typed : {TRUE} ]

Kwargs == AcquisitionKwargs \cup ExecutorKwargs

\* What the engine can answer to a blocking call
RunStdout == { <<"r", "9", "\n">>, <<"\n">> }
InspectIdStdout == { <<"i", "7", "\n">>, <<" ", "i", "7">>, <<"\n">> }
InspectStateStdout == { <<"t", "r", "u", "e", "\n">>, <<"T", "r", "u", "e">>,
                        <<"f", "a", "l", "s", "e", "\n">>, << >> }
AcquireDurations == {1, 121}
Replies(stdouts) == [ dur : AcquireDurations, returncode : {0, 1}, stdout : stdouts ]
\* the replies to quantify over for a call the constructor may not reach
NoReply == [ dur |-> 0, returncode |-> 0, stdout |-> << >> ]
RepliesIf(reached, stdouts) == IF reached THEN Replies(stdouts) ELSE {NoReply}

ExecDurations == {1, 2, 31}
ExecReplies == [ dur : ExecDurations, returncode : {0, 1}, stdout : {"hi\n"} ]
CwdArgs == {"", "/tmp"}
TimeoutArgs == {None, Some(0), Some(2)}

----------------------------------------------------------------------------
(* The engine adapter: a blocking subprocess.run with a wall-clock bound *)

\* subprocess.run(cmd, timeout=timeout, check=check) against an engine that
\* answers `reply`: the exception raised, or "none"
subprocess_run(reply, timeout, check) ==
    IF reply.dur > timeout THEN "TimeoutExpired"
    ELSE IF check /\ reply.returncode # 0 THEN "CalledProcessError"
    ELSE "none"

Call(op, reply) == [op |-> op, reply |-> reply]

----------------------------------------------------------------------------
(* Configuration *)

\* config_class(**kwargs): the fields given, defaults for the others
DockerEnvironmentConfig(kw) ==
    [ image |-> kw.image,
      cwd |-> "/",
      container_id |-> kw.container_id,
      container_name |-> kw.container_name,
      manage_container |-> kw.manage_container,
      env |-> kw.env,
      forward_env |-> kw.forward_env,
      timeout |-> IF kw.timeout = None THEN DefaultTimeout ELSE kw.timeout[1],
      executable |-> "docker",
      pull_timeout |-> DefaultPullTimeout ]

----------------------------------------------------------------------------
(* Lifecycle manager *)

\* a variant that keeps the default and ignores an explicit manage_container
resolve_manage_container_default_only(cfg) ==
    Some(~(Truthy(cfg.container_id) \/ Truthy(cfg.container_name)))

\* a variant whose default looks at container_id only
resolve_manage_container_id_only(cfg) ==
    IF cfg.manage_container = None
    THEN Some(~Truthy(cfg.container_id))
    ELSE cfg.manage_container

\* self._manage_container after lines 57-59
resolve_manage_container(cfg) ==
    IF cfg.manage_container = None
    THEN Some(~(Truthy(cfg.container_id) \/ Truthy(cfg.container_name)))
    ELSE cfg.manage_container

\* line 60: an existing container is adopted rather than a new one started
adopts_existing(cfg) == Truthy(cfg.container_id) \/ Truthy(cfg.container_name)

\* a variant that keeps the run call's output untrimmed
_start_container_untrimmed(cfg, r_run) ==
    IF ~Truthy(cfg.image)
    THEN [raised |-> "ValueError_image_required", container_id |-> None, log |-> << >>]
    ELSE LET exc == subprocess_run(r_run, cfg.pull_timeout, TRUE)
         IN  IF exc # "none"
             THEN [raised |-> exc, container_id |-> None,
                   log |-> << Call("run", r_run) >>]
             ELSE [raised |-> "none", container_id |-> Some(r_run.stdout),
                   log |-> << Call("run", r_run) >>]

\* a variant that issues the run call without requiring an image
_start_container_unchecked(cfg, r_run) ==
    LET exc == subprocess_run(r_run, cfg.pull_timeout, TRUE)
    IN  IF exc # "none"
        THEN [raised |-> exc, container_id |-> None, log |-> << Call("run", r_run) >>]
        ELSE [raised |-> "none", container_id |-> Some(strip(r_run.stdout)),
              log |-> << Call("run", r_run) >>]

\* a variant that takes the run call's output whether or not the call succeeded
_start_container_ignoring_failure(cfg, r_run) ==
    IF ~Truthy(cfg.image)
    THEN [raised |-> "ValueError_image_required", container_id |-> None, log |-> << >>]
    ELSE [raised |-> "none", container_id |-> Some(strip(r_run.stdout)),
          log |-> << Call("run", r_run) >>]

\* a variant that issues the run call a second time when the first one fails
_start_container_retrying(cfg, r_run) ==
    IF ~Truthy(cfg.image)
    THEN [raised |-> "ValueError_image_required", container_id |-> None, log |-> << >>]
    ELSE LET exc == subprocess_run(r_run, cfg.pull_timeout, TRUE)
         IN  IF exc # "none"
             THEN [raised |-> exc, container_id |-> None,
                   log |-> << Call("run", r_run), Call("run", r_run) >>]
             ELSE [raised |-> "none", container_id |-> Some(strip(r_run.stdout)),
                   log |-> << Call("run", r_run) >>]

\* _start_container(): [raised, container_id, log]
_start_container(cfg, r_run) ==
    IF ~Truthy(cfg.image)
    THEN [raised |-> "ValueError_image_required", container_id |-> None, log |-> << >>]
    ELSE LET exc == subprocess_run(r_run, cfg.pull_timeout, TRUE)
         IN  IF exc # "none"
             THEN [raised |-> exc, container_id |-> None,
                   log |-> << Call("run", r_run) >>]
             ELSE [raised |-> "none", container_id |-> Some(strip(r_run.stdout)),
                   log |-> << Call("run", r_run) >>]

\* a variant that adopts the resolved id without looking at the running-state
_resolve_container_id_any_state(cfg, container_name, r_id, r_state) ==
    LET exc1 == subprocess_run(r_id, cfg.pull_timeout, TRUE)
        cid == strip(r_id.stdout)
        exc2 == subprocess_run(r_state, cfg.pull_timeout, TRUE)
        log1 == << Call("inspect_id", r_id) >>
        log2 == << Call("inspect_id", r_id), Call("inspect_state", r_state) >>
    IN  IF exc1 # "none"
        THEN [raised |-> exc1, container_id |-> None, log |-> log1]
        ELSE IF cid = << >>
        THEN [raised |-> "RuntimeError_unresolved", container_id |-> None, log |-> log1]
        ELSE IF exc2 # "none"
        THEN [raised |-> exc2, container_id |-> None, log |-> log2]
        ELSE [raised |-> "none", container_id |-> Some(cid), log |-> log2]

\* _resolve_container_id(container_name): [raised, container_id, log]
_resolve_container_id(cfg, container_name, r_id, r_state) ==
    IF ~Truthy(container_name)
    THEN [raised |-> "ValueError_name_required", container_id |-> None, log |-> << >>]
    ELSE
    LET exc1 == subprocess_run(r_id, cfg.pull_timeout, TRUE)
        cid == strip(r_id.stdout)
        exc2 == subprocess_run(r_state, cfg.pull_timeout, TRUE)
        state == strip(r_state.stdout)
        log1 == << Call("inspect_id", r_id) >>
        log2 == << Call("inspect_id", r_id), Call("inspect_state", r_state) >>
    IN  IF exc1 # "none"
        THEN [raised |-> exc1, container_id |-> None, log |-> log1]
        ELSE IF cid = << >>
        THEN [raised |-> "RuntimeError_unresolved", container_id |-> None, log |-> log1]
        ELSE IF exc2 # "none"
        THEN [raised |-> exc2, container_id |-> None, log |-> log2]
        ELSE IF lower(state) # <<"t", "r", "u", "e">>
        THEN [raised |-> "RuntimeError_not_running", container_id |-> None, log |-> log2]
        ELSE [raised |-> "none", container_id |-> Some(cid), log |-> log2]

\* a variant that checks a supplied id with the engine, as it does a name
acquire_checking_id(cfg, r_run, r_id, r_state) ==
    IF adopts_existing(cfg)
    THEN _resolve_container_id(cfg, PyOr(cfg.container_id, cfg.container_name),
                               r_id, r_state)
    ELSE _start_container(cfg, r_run)

\* a variant that resolves the name when one is given, before looking at the id
acquire_name_first(cfg, r_run, r_id, r_state) ==
    IF adopts_existing(cfg)
    THEN IF Truthy(cfg.container_name)
         THEN _resolve_container_id(cfg, cfg.container_name, r_id, r_state)
         ELSE [raised |-> "none", container_id |-> cfg.container_id, log |-> << >>]
    ELSE _start_container(cfg, r_run)

\* lines 60-63: the acquisition path taken, [raised, container_id, log]
acquire(cfg, r_run, r_id, r_state) ==
    IF adopts_existing(cfg)
    THEN IF Truthy(cfg.container_id)
         THEN [raised |-> "none", container_id |-> cfg.container_id, log |-> << >>]
         ELSE _resolve_container_id(cfg, cfg.container_name, r_id, r_state)
    ELSE _start_container(cfg, r_run)

\* which engine calls the constructor can get to, given its arguments
reaches_run(kw) ==
    kw.well_typed /\ ~adopts_existing(DockerEnvironmentConfig(kw)) /\ Truthy(kw.image)
reaches_inspect(kw) ==
    kw.well_typed /\ ~Truthy(kw.container_id) /\ Truthy(kw.container_name)

\* DockerEnvironment.__init__(**kwargs)
DockerEnvironment_init ==
    /\ phase = "new"
    /\ \E r_run \in RepliesIf(reaches_run(kwargs), RunStdout),
          r_id \in RepliesIf(reaches_inspect(kwargs), InspectIdStdout),
          r_state \in RepliesIf(reaches_inspect(kwargs), InspectStateStdout) :
        IF ~kwargs.well_typed
        THEN \* line 56 raises: container_id is set, config and _manage_container are not
             /\ attrs' = {"logger", "container_id"}
             /\ container_id' = None
             /\ raised' = "ValidationError"
             /\ phase' = "failed"
             /\ UNCHANGED << config, _manage_container, acq_log >>
        ELSE LET cfg == DockerEnvironmentConfig(kwargs)
                 acq == acquire(cfg, r_run, r_id, r_state)
             IN  /\ attrs' = {"logger", "container_id", "config", "_manage_container"}
                 /\ config' = Some(cfg)
                 /\ _manage_container' = resolve_manage_container(cfg)
                 /\ container_id' = acq.container_id
                 /\ acq_log' = acq.log
                 /\ raised' = acq.raised
                 /\ phase' = IF acq.raised = "none" THEN "ready" ELSE "failed"
    /\ UNCHANGED << kwargs, environ, last_exec, n_exec, n_teardown, n_cleanup,
                    teardown_target, result >>

----------------------------------------------------------------------------
(* Executor *)

\* a variant that forwards every listed name, set on the host or not
RECURSIVE forwarded_flags_unconditional(_, _)
forwarded_flags_unconditional(forward_env, env) ==
    IF forward_env = << >> THEN << >>
    ELSE LET key == Head(forward_env)
             rest == forwarded_flags_unconditional(Tail(forward_env), env)
         IN  << <<key, IF env[key] # None THEN env[key][1] ELSE "">> >> \o rest

\* lines 129-131: the -e flags of the forwarded names that are set on the host
RECURSIVE forwarded_flags(_, _)
forwarded_flags(forward_env, env) ==
    IF forward_env = << >> THEN << >>
    ELSE LET key == Head(forward_env)
             rest == forwarded_flags(Tail(forward_env), env)
         IN  IF env[key] # None THEN << <<key, env[key][1]>> >> \o rest ELSE rest

\* lines 132-133: the -e flags of the explicit mapping
explicit_flags(cfg) == cfg.env

\* a variant that adds the explicit mapping before the forwarded names
exec_cmd_explicit_first(cfg, cid, command, cwd, env) ==
    [ executable |-> cfg.executable,
      w |-> cwd,
      e |-> explicit_flags(cfg) \o forwarded_flags(cfg.forward_env, env),
      target |-> cid,
      command |-> command ]

\* lines 128-134: the exec invocation
exec_cmd(cfg, cid, command, cwd, env) ==
    [ executable |-> cfg.executable,
      w |-> cwd,
      e |-> forwarded_flags(cfg.forward_env, env) \o explicit_flags(cfg),
      target |-> cid,
      command |-> command ]

\* line 125: cwd or self.config.cwd
effective_cwd(cfg, cwd) == IF cwd # "" THEN cwd ELSE cfg.cwd

\* line 139: timeout or self.config.timeout
effective_timeout(cfg, timeout) ==
    IF timeout # None /\ timeout[1] # 0 THEN timeout[1] ELSE cfg.timeout

\* a variant that hands back the output gathered so far when the bound is exceeded
execute_outcome_truncated(reply, bound) ==
    [ raised |-> "none",
      result |-> Some([output |-> reply.stdout, returncode |-> reply.returncode]) ]

\* a variant that runs the exec call with check=True
execute_outcome_checked(reply, bound) ==
    LET exc == subprocess_run(reply, bound, TRUE)
    IN  [ raised |-> exc,
          result |-> IF exc = "none"
                     THEN Some([output |-> reply.stdout, returncode |-> reply.returncode])
                     ELSE None ]

\* lines 136-145: the bounded call and what execute() hands back, [raised, result]
execute_outcome(reply, bound) ==
    LET exc == subprocess_run(reply, bound, FALSE)
    IN  [ raised |-> exc,
          result |-> IF exc = "none"
                     THEN Some([output |-> reply.stdout, returncode |-> reply.returncode])
                     ELSE None ]

Commands == {"echo hi"}

\* a variant that drops the handle when the command times out
Execute_invalidating ==
    /\ phase = "ready"
    /\ n_exec < MaxExecute
    /\ \E command \in Commands, cwd \in CwdArgs, timeout \in TimeoutArgs,
          reply \in ExecReplies :
        IF ~Truthy(container_id)
        THEN /\ raised' = "AssertionError"
             /\ result' = None
             /\ UNCHANGED << last_exec, n_exec, container_id >>
        ELSE LET cfg == config[1]
                 cmd == exec_cmd(cfg, container_id[1], command,
                                 effective_cwd(cfg, cwd), environ)
                 bound == effective_timeout(cfg, timeout)
                 out == execute_outcome(reply, bound)
             IN  /\ last_exec' = Some([cwd_arg |-> cwd, timeout_arg |-> timeout,
                                       cmd |-> cmd, timeout |-> bound,
                                       reply |-> reply])
                 /\ n_exec' = n_exec + 1
                 /\ raised' = out.raised
                 /\ result' = out.result
                 /\ container_id' = IF out.raised = "TimeoutExpired"
                                    THEN None ELSE container_id
    /\ UNCHANGED << kwargs, phase, attrs, config, _manage_container,
                    environ, acq_log, n_teardown, n_cleanup, teardown_target >>

\* execute(command, cwd, timeout=timeout)
Execute ==
    /\ phase = "ready"
    /\ n_exec < MaxExecute
    /\ \E command \in Commands, cwd \in CwdArgs, timeout \in TimeoutArgs,
          reply \in ExecReplies :
        IF ~Truthy(container_id)
        THEN \* line 126: the assertion fails before any call is built
             /\ raised' = "AssertionError"
             /\ result' = None
             /\ UNCHANGED << last_exec, n_exec >>
        ELSE LET cfg == config[1]
                 cmd == exec_cmd(cfg, container_id[1], command,
                                 effective_cwd(cfg, cwd), environ)
                 bound == effective_timeout(cfg, timeout)
                 out == execute_outcome(reply, bound)
             IN  /\ last_exec' = Some([cwd_arg |-> cwd, timeout_arg |-> timeout,
                                       cmd |-> cmd, timeout |-> bound,
                                       reply |-> reply])
                 /\ n_exec' = n_exec + 1
                 /\ raised' = out.raised
                 /\ result' = out.result
    /\ UNCHANGED << kwargs, phase, attrs, config, container_id, _manage_container,
                    environ, acq_log, n_teardown, n_cleanup, teardown_target >>

----------------------------------------------------------------------------
(* Cleanup coordinator *)

\* line 149 reads self._manage_container with no default
cleanup_raises == "_manage_container" \notin attrs

\* a variant that tears down any handle, owned or not
cleanup_acts_unowned ==
    /\ "container_id" \in attrs
    /\ container_id # None

\* line 149: the condition under which the teardown pipeline is issued
cleanup_acts ==
    /\ _manage_container = Some(TRUE)
    /\ "container_id" \in attrs
    /\ container_id # None

\* the body of cleanup(), lines 149-151
cleanup_body ==
    IF cleanup_raises
    THEN /\ raised' = "AttributeError"
         /\ UNCHANGED << n_teardown, teardown_target >>
    ELSE IF cleanup_acts
    THEN /\ raised' = "none"
         /\ n_teardown' = n_teardown + 1
         /\ teardown_target' = container_id
    ELSE /\ raised' = "none"
         /\ UNCHANGED << n_teardown, teardown_target >>

\* a variant that gives up ownership once cleanup() has run
Cleanup_disowning ==
    /\ phase = "ready"
    /\ n_cleanup < MaxCleanup
    /\ cleanup_body
    /\ n_cleanup' = n_cleanup + 1
    /\ result' = None
    /\ _manage_container' = IF cleanup_raises THEN _manage_container ELSE Some(FALSE)
    /\ UNCHANGED << kwargs, phase, attrs, config, container_id,
                    environ, acq_log, last_exec, n_exec >>

\* a variant that forgets the handle once cleanup() has run
Cleanup_clearing_handle ==
    /\ phase = "ready"
    /\ n_cleanup < MaxCleanup
    /\ cleanup_body
    /\ n_cleanup' = n_cleanup + 1
    /\ result' = None
    /\ container_id' = IF cleanup_raises THEN container_id ELSE None
    /\ UNCHANGED << kwargs, phase, attrs, config, _manage_container,
                    environ, acq_log, last_exec, n_exec >>

\* an explicit cleanup() call
Cleanup ==
    /\ phase = "ready"
    /\ n_cleanup < MaxCleanup
    /\ cleanup_body
    /\ n_cleanup' = n_cleanup + 1
    /\ result' = None
    /\ UNCHANGED << kwargs, phase, attrs, config, container_id, _manage_container,
                    environ, acq_log, last_exec, n_exec >>

\* __del__(): the instance is destroyed, whatever point construction reached
Del ==
    /\ phase \in {"ready", "failed"}
    /\ cleanup_body
    /\ phase' = "dead"
    /\ result' = None
    /\ UNCHANGED << kwargs, attrs, config, container_id, _manage_container,
                    environ, acq_log, last_exec, n_exec, n_cleanup >>

----------------------------------------------------------------------------
(* The host process changes its environment between calls.  execute() reads  *)
(* os.environ only at the names in config.forward_env, so only those are kept *)

ForwardedNames(forward_env) == { forward_env[i] : i \in 1..Len(forward_env) }

SetEnv ==
    /\ phase = "ready"
    /\ \E key \in DOMAIN environ : \E value \in HostValues(key) :
        /\ environ[key] # value
        /\ environ' = [environ EXCEPT ![key] = value]
    /\ UNCHANGED << kwargs, phase, attrs, config, container_id, _manage_container,
                    acq_log, last_exec, n_exec, n_teardown, n_cleanup,
                    teardown_target, raised, result >>

----------------------------------------------------------------------------

Init ==
    /\ kwargs \in Kwargs
    /\ phase = "new"
    /\ attrs = {}
    /\ config = None
    /\ container_id = None
    /\ _manage_container = None
    /\ environ \in HostEnvironments(ForwardedNames(kwargs.forward_env))
    /\ acq_log = << >>
    /\ last_exec = None
    /\ n_exec = 0
    /\ n_teardown = 0
    /\ n_cleanup = 0
    /\ teardown_target = None
    /\ raised = "none"
    /\ result = None

Next ==
    \/ DockerEnvironment_init
    \/ Execute
    \/ Cleanup
    \/ Del
    \/ SetEnv

Spec == Init /\ [][Next]_vars

----------------------------------------------------------------------------
(* Observations used by the properties *)

\* number of engine calls of kind `op` the constructor issued
RECURSIVE CountOp(_, _)
CountOp(log, op) ==
    IF log = << >> THEN 0
    ELSE (IF Head(log).op = op THEN 1 ELSE 0) + CountOp(Tail(log), op)

Constructed == phase \in {"ready", "dead"} /\ container_id # None
ConstructorFailed == phase \in {"failed", "dead"} /\ container_id = None
ConstructorReturned == phase # "new"

\* this instance started the container it holds / took over an existing one
StartedNew == Constructed /\ CountOp(acq_log, "run") > 0
Adopted == Constructed /\ CountOp(acq_log, "run") = 0

Owns == _manage_container = Some(TRUE)
ForcedTrue == kwargs.manage_container = Some(TRUE)
ForcedFalse == kwargs.manage_container = Some(FALSE)

\* the engine call answered within the acquisition bound with exit status 0
Returned(call) == call.reply.dur <= DefaultPullTimeout /\ call.reply.returncode = 0

\* h is s without its leading and trailing whitespace
IsTrimOf(h, s) ==
    /\ h = << >> \/ (h[1] \notin Whitespace /\ h[Len(h)] \notin Whitespace)
    /\ \E i \in 0..Len(s) :
        /\ i + Len(h) <= Len(s)
        /\ \A k \in 1..Len(s) :
            IF k > i /\ k <= i + Len(h) THEN s[k] = h[k - i] ELSE s[k] \in Whitespace

IsBlank(s) == \A k \in 1..Len(s) : s[k] \in Whitespace

\* the running-state output reads "true", in any letter case, once trimmed
ReportsRunning(s) ==
    \E t \in { <<"t", "r", "u", "e">>, <<"T", "r", "u", "e">>, <<"T", "R", "U", "E">> } :
        IsTrimOf(t, s)

\* the value docker gives variable `key` for a list of -e flags: the last one wins
RECURSIVE EffectiveValue(_, _)
EffectiveValue(flags, key) ==
    IF flags = << >> THEN None
    ELSE IF flags[Len(flags)][1] = key THEN Some(flags[Len(flags)][2])
    ELSE EffectiveValue(SubSeq(flags, 1, Len(flags) - 1), key)

InSeq(x, seq) == \E i \in 1..Len(seq) : seq[i] = x

----------------------------------------------------------------------------
(* Properties *)

\* C1: over the whole life of one instance (explicit cleanup() calls plus the
\* implicit cleanup on destruction) the teardown command is issued at most once;
\* a second cleanup() issues no additional external command.
C1_TeardownAtMostOnce == n_teardown <= 1

\* C2: cleanup() never raises and issues no engine command on an instance whose
\* constructor failed (at configuration validation, name resolution or start).
C2_CleanupSafeAfterFailedInit ==
    (phase = "dead" /\ container_id = None) => (raised = "none" /\ n_teardown = 0)

\* C3: a teardown command is issued only by an instance whose ownership flag is
\* true and whose handle is set; an instance that adopted an existing id or name
\* without manage_container forced true never issues one.
C3_TeardownOnlyByOwner ==
    [][ /\ n_teardown' # n_teardown => (Owns /\ container_id # None)
        /\ (Adopted' /\ ~ForcedTrue') => n_teardown' = 0 ]_vars

C3_Witness ==
    /\ phase = "dead"
    /\ Adopted /\ ~ForcedTrue
    /\ n_exec > 0 /\ n_cleanup > 0

\* C4 (as stated): after a successful acquisition, ownership is true when this
\* instance started a new context or manage_container is forced true, and false
\* when an existing handle was adopted without manage_container forced true.
C4_OwnershipAsStated ==
    phase = "ready" =>
        /\ (StartedNew \/ ForcedTrue) => Owns
        /\ (Adopted /\ ~ForcedTrue) => ~Owns

\* C4 (amended): after a successful acquisition, ownership is true when
\* manage_container is forced true, or when this instance started a new context
\* and manage_container is not explicitly false; it is false otherwise.
C4_OwnershipFollowsFlag ==
    Constructed => (Owns <=> (ForcedTrue \/ (StartedNew /\ ~ForcedFalse)))

C4_Witness == phase = "ready" /\ StartedNew /\ ForcedFalse /\ ~Owns

ImageOnly ==
    /\ kwargs.well_typed
    /\ Truthy(kwargs.image)
    /\ kwargs.container_id = None /\ kwargs.container_name = None
    /\ kwargs.manage_container = None

\* C5: a configuration with an image and neither container_id nor container_name
\* (manage_container unspecified) issues exactly one run call and no inspect call,
\* owns the container, and its handle is the trimmed output of the run call.
C5_ImageOnlyStartsOne ==
    (ConstructorReturned /\ ImageOnly) =>
        /\ CountOp(acq_log, "run") = 1 /\ Len(acq_log) = 1
        /\ Owns
        /\ Returned(acq_log[1]) =>
            /\ container_id # None
            /\ IsTrimOf(container_id[1], acq_log[1].reply.stdout)
        /\ container_id # None => Returned(acq_log[1])

C5_Witness ==
    /\ phase = "ready" /\ ImageOnly
    /\ acq_log[1].reply.stdout = <<"r", "9", "\n">>
    /\ container_id = Some(<<"r", "9">>)

IdOnly ==
    /\ kwargs.well_typed
    /\ Truthy(kwargs.container_id)
    /\ kwargs.container_name = None /\ kwargs.image = None

\* C6: a configuration with only an existing container_id issues no engine call
\* during acquisition, takes the id verbatim as its handle, and owns the
\* container only if manage_container is explicitly true.
C6_IdOnlyAdoptsVerbatim ==
    (ConstructorReturned /\ IdOnly) =>
        /\ acq_log = << >>
        /\ Constructed
        /\ container_id = kwargs.container_id
        /\ Owns <=> ForcedTrue

C6_Witness ==
    /\ phase = "ready" /\ IdOnly /\ kwargs.manage_container = None
    /\ container_id = Some(<<"c", "1">>) /\ ~Owns

NameOnly ==
    /\ kwargs.well_typed
    /\ Truthy(kwargs.container_name)
    /\ kwargs.container_id = None /\ kwargs.image = None

\* C7: a configuration with only an existing container_name fails if the first
\* inspect returns an empty identifier or the second inspect reports a
\* running-state other than true; otherwise the handle is the resolved
\* identifier.  The handle is never set for a name not reported running.
C7_NameOnlyGatedOnRunning ==
    (ConstructorReturned /\ NameOnly) =>
        LET n == Len(acq_log)
            idOut == acq_log[1].reply.stdout
            stateOut == acq_log[2].reply.stdout
        IN  /\ n >= 1 /\ acq_log[1].op = "inspect_id"
            /\ (Returned(acq_log[1]) /\ IsBlank(idOut)) => (ConstructorFailed /\ n = 1)
            /\ (n = 2 /\ Returned(acq_log[2]) /\ ~ReportsRunning(stateOut))
                    => ConstructorFailed
            /\ (n = 2 /\ Returned(acq_log[2]) /\ ReportsRunning(stateOut))
                    => (container_id # None /\ IsTrimOf(container_id[1], idOut))
            /\ container_id # None =>
                    /\ n = 2 /\ acq_log[2].op = "inspect_state"
                    /\ Returned(acq_log[1]) /\ ~IsBlank(idOut)
                    /\ Returned(acq_log[2]) /\ ReportsRunning(stateOut)

C7_Witness ==
    /\ phase = "failed" /\ NameOnly
    /\ Len(acq_log) = 2 /\ Returned(acq_log[2])
    /\ acq_log[2].reply.stdout = <<"f", "a", "l", "s", "e", "\n">>
    /\ raised = "RuntimeError_not_running"

NothingGiven ==
    /\ kwargs.well_typed
    /\ ~Truthy(kwargs.image)
    /\ ~Truthy(kwargs.container_id) /\ ~Truthy(kwargs.container_name)

\* C8: a configuration with no image, no container_id and no container_name
\* fails with a configuration error, and no engine call (run, inspect, exec,
\* stop, remove) has been issued.
C8_NothingGivenFailsBeforeAnyCall ==
    (ConstructorReturned /\ NothingGiven) =>
        /\ ConstructorFailed
        /\ phase = "failed" => raised = "ValueError_image_required"
        /\ acq_log = << >> /\ n_exec = 0 /\ n_teardown = 0

C8_Witness ==
    phase = "failed" /\ NothingGiven /\ raised = "ValueError_image_required"

\* the value config.env gives `key`
ExplicitValue(env, key) ==
    IF \E i \in 1..Len(env) : env[i][1] = key
    THEN Some(env[CHOOSE i \in 1..Len(env) : env[i][1] = key][2])
    ELSE None

\* C9: when execute() issues its exec call, for a name that is both in the forward
\* list with a host value va and in the explicit env mapping with a different
\* value ve, the effective value is ve: the explicit assignment comes after every
\* forwarded assignment of that name and is the last one in the invocation.
C9_ExplicitEnvWins ==
    [][ n_exec' = n_exec + 1 =>
            LET cfg == config[1]
                flags == last_exec'[1].cmd.e
            IN  \A key \in DOMAIN environ :
                    ( /\ InSeq(key, cfg.forward_env)
                      /\ environ[key] # None
                      /\ ExplicitValue(cfg.env, key) # None
                      /\ ExplicitValue(cfg.env, key) # environ[key] )
                    => /\ EffectiveValue(flags, key) = ExplicitValue(cfg.env, key)
                       /\ \E i, j \in 1..Len(flags) :
                            /\ i < j
                            /\ flags[i] = <<key, environ[key][1]>>
                            /\ flags[j] = <<key, ExplicitValue(cfg.env, key)[1]>>
                            /\ \A m \in 1..Len(flags) :
                                (m # j /\ flags[m][1] = key) => m < j ]_vars

C9_Witness ==
    /\ last_exec # None
    /\ InSeq(<<"A", "va">>, last_exec[1].cmd.e)
    /\ InSeq(<<"A", "ve">>, last_exec[1].cmd.e)
    /\ EffectiveValue(last_exec[1].cmd.e, "A") = Some("ve")

\* C10: an execute() call whose command outlives its effective timeout ends as a
\* timeout failure propagated to the caller and returns no Execution Result.
C10_TimeoutIsFailure ==
    [][ (n_exec' = n_exec + 1 /\ last_exec'[1].reply.dur > last_exec'[1].timeout)
            => (raised' = "TimeoutExpired" /\ result' = None) ]_vars

C10_Witness ==
    /\ phase = "ready" /\ last_exec # None
    /\ last_exec[1].timeout = 1 /\ last_exec[1].reply.dur = 2
    /\ raised = "TimeoutExpired" /\ result = None

\* the command of an exec invocation timed out or ended with a nonzero status
FailedCommand(call) ==
    call.reply.dur > call.timeout \/ call.reply.returncode # 0

\* C11: an execute() whose command timed out or returned a nonzero status leaves
\* the instance unchanged (handle, ownership, configuration) and usable, and an
\* execute() that follows a failed one issues its exec call against the same
\* handle.
C11_FailedCommandKeepsInstance ==
    [][ /\ (n_exec' = n_exec + 1 /\ FailedCommand(last_exec'[1])) =>
              /\ container_id' = container_id
              /\ _manage_container' = _manage_container
              /\ config' = config
              /\ phase' = "ready" /\ Truthy(container_id')
        /\ (n_exec' = n_exec + 1 /\ last_exec # None /\ FailedCommand(last_exec[1])) =>
              /\ last_exec'[1].cmd.target = last_exec[1].cmd.target
              /\ last_exec'[1].cmd.target = container_id[1] ]_vars

C11_Witness ==
    /\ phase = "ready" /\ n_exec = 2
    /\ raised = "TimeoutExpired"
    /\ last_exec[1].cmd.target = container_id[1]

\* C12: a command that finishes within its timeout with a nonzero exit status is
\* not an error: execute() raises nothing and returns a result whose returncode
\* is that status and whose output is the merged text.
C12_NonzeroExitIsResult ==
    [][ (n_exec' = n_exec + 1 /\ last_exec'[1].reply.dur <= last_exec'[1].timeout) =>
            /\ raised' = "none"
            /\ result' # None
            /\ result'[1].returncode = last_exec'[1].reply.returncode
            /\ result'[1].output = last_exec'[1].reply.stdout ]_vars

C12_Witness ==
    /\ phase = "ready" /\ raised = "none"
    /\ result # None /\ result[1].returncode = 1 /\ result[1].output = "hi\n"

\* the engine's answers show that acquisition cannot have succeeded: a call
\* that failed or timed out, an empty identifier, or a name not reported running
AcquisitionRefused ==
    \/ \E i \in 1..Len(acq_log) : ~Returned(acq_log[i])
    \/ \E i \in 1..Len(acq_log) :
        /\ acq_log[i].op = "inspect_id" /\ IsBlank(acq_log[i].reply.stdout)
    \/ \E i \in 1..Len(acq_log) :
        /\ acq_log[i].op = "inspect_state" /\ ~ReportsRunning(acq_log[i].reply.stdout)

\* C13: no exec call is ever issued by an instance whose acquisition failed (name
\* resolution: empty id, not running, engine failure; or a failed start call):
\* the handle stays unset and the instance never becomes usable.
C13_NoExecAfterFailedAcquisition ==
    /\ AcquisitionRefused =>
        (container_id = None /\ phase \in {"failed", "dead"} /\ n_exec = 0
            /\ last_exec = None)
    /\ ConstructorFailed => (n_exec = 0 /\ last_exec = None)

C13_Witness ==
    /\ phase = "dead" /\ AcquisitionRefused
    /\ Len(acq_log) = 2 /\ acq_log[2].reply.stdout = << >>
    /\ n_exec = 0 /\ container_id = None

\* C14: once the constructor has returned, no execute(), cleanup() or
\* destruction changes container_id or the ownership flag.
C14_HandleAndOwnershipFrozen ==
    [][ phase # "new" =>
            (container_id' = container_id /\ _manage_container' = _manage_container)
      ]_vars

C14_Witness ==
    /\ phase = "dead" /\ n_exec = 2 /\ n_cleanup = 2 /\ n_teardown = 3
    /\ container_id = Some(<<"r", "9">>) /\ Owns

\* C15: execute() bounds its exec call by the override timeout if one is given,
\* else by the configured default, and uses the override working directory if
\* one is given, else the configured default; for every override value,
\* including a timeout override of 0.
C15_OverridesApplied ==
    last_exec # None =>
        LET call == last_exec[1]
            cfg == config[1]
        IN  /\ call.timeout = IF call.timeout_arg # None
                              THEN call.timeout_arg[1] ELSE cfg.timeout
            /\ call.cmd.w = IF call.cwd_arg # "" THEN call.cwd_arg ELSE cfg.cwd

\* C16: the forwarded variables of an exec invocation are those the host
\* environment holds when execute() is called: a forwarded name that is set
\* contributes exactly one flag, carrying its current value, and a name that is
\* unset contributes none.
C16_ForwardedReadAtCallTime ==
    [][ n_exec' = n_exec + 1 =>
            LET cfg == config[1]
                flags == last_exec'[1].cmd.e
                forwarded == SubSeq(flags, 1, Len(flags) - Len(cfg.env))
            IN  /\ Len(flags) >= Len(cfg.env)
                /\ \A key \in DOMAIN environ :
                    LET at == { i \in 1..Len(forwarded) : forwarded[i][1] = key }
                    IN  IF environ[key] = None
                        THEN at = {}
                        ELSE /\ Cardinality(at) = 1
                             /\ \A i \in at : forwarded[i][2] = environ[key][1] ]_vars

C16_Witness ==
    /\ n_exec = 2 /\ kwargs.forward_env = <<"B", "A">> /\ kwargs.env = << >>
    /\ last_exec[1].cmd.e = << <<"A", "ve">> >>
    /\ environ["A"] = Some("ve") /\ environ["B"] = None

\* C17: when both container_id and container_name are given, the handle is the
\* supplied id verbatim and no inspect call is issued for the name.
C17_IdWinsOverName ==
    ( /\ ConstructorReturned /\ kwargs.well_typed
      /\ Truthy(kwargs.container_id) /\ Truthy(kwargs.container_name) )
    => /\ container_id = kwargs.container_id
       /\ CountOp(acq_log, "inspect_id") = 0
       /\ CountOp(acq_log, "inspect_state") = 0
       /\ acq_log = << >>

C17_Witness ==
    /\ phase = "ready"
    /\ kwargs.container_id = Some(<<"c", "1">>) /\ kwargs.container_name = Some(<<"t">>)
    /\ container_id = Some(<<"c", "1">>)

\* C18: an engine failure during acquisition (nonzero exit or exceeding the
\* pull-timeout bound) is fatal with no retry: the failing call is the last one
\* the constructor issues, no call is repeated, and the handle stays unset; after
\* it, cleanup() and destruction issue no teardown, even when ownership is true.
C18_EngineFailureIsFatal ==
    /\ \A i \in 1..Len(acq_log) :
        ~Returned(acq_log[i]) =>
            /\ i = Len(acq_log)
            /\ container_id = None
            /\ phase \in {"failed", "dead"}
            /\ n_teardown = 0 /\ n_exec = 0
    /\ \A op \in {"run", "inspect_id", "inspect_state"} : CountOp(acq_log, op) <= 1

C18_Witness ==
    /\ phase = "dead" /\ Owns
    /\ Len(acq_log) = 1 /\ acq_log[1].op = "run"
    /\ acq_log[1].reply.dur > DefaultPullTimeout
    /\ n_teardown = 0 /\ container_id = None

\* the constructor went to _start_container(): it issued the run call, or it
\* stopped for want of an image before any engine call and without a handle
TookStartPath ==
    \/ CountOp(acq_log, "run") > 0
    \/ (acq_log = << >> /\ container_id = None)

\* C19: with manage_container unspecified, the default ownership agrees with the
\* acquisition path for every combination of container_id and container_name,
\* empty strings included: the instance owns exactly when the constructor took
\* the start path, a run call is issued only by an owning instance and an
\* inspect call only by a non-owning one, and after a successful acquisition
\* ownership is true exactly when this instance started the container and false
\* exactly when it adopted one.
C19_DefaultOwnershipMatchesPath ==
    (ConstructorReturned /\ kwargs.well_typed /\ kwargs.manage_container = None) =>
        /\ Owns <=> TookStartPath
        /\ CountOp(acq_log, "run") > 0 => Owns
        /\ CountOp(acq_log, "inspect_id") > 0 => ~Owns
        /\ Constructed => (Owns <=> StartedNew) /\ (~Owns <=> Adopted)

C19_Witness ==
    /\ phase = "ready" /\ kwargs.manage_container = None
    /\ kwargs.container_id = Some(<< >>) /\ kwargs.container_name = Some(<<"t">>)
    /\ Adopted /\ ~Owns

\* a step of execute(): the instance stays ready and neither cleanup() nor the
\* host environment moved
IsExecuteStep ==
    /\ phase = "ready" /\ phase' = "ready"
    /\ n_cleanup' = n_cleanup /\ environ' = environ
    /\ vars' # vars

\* C20: cleanup() does not close the instance: once it has issued teardown for an
\* owned handle, a later execute() still passes its handle check and issues an
\* exec call against that same handle.
C20_ExecuteAfterCleanup ==
    [][ (n_teardown > 0 /\ Truthy(teardown_target) /\ IsExecuteStep) =>
            /\ raised' # "AssertionError"
            /\ n_exec' = n_exec + 1
            /\ last_exec'[1].cmd.target = teardown_target[1] ]_vars

C20_Witness ==
    /\ phase = "ready" /\ n_teardown > 0 /\ n_cleanup > 0
    /\ result # None
    /\ last_exec[1].cmd.target = teardown_target[1]

====
